---------------------------- MODULE Spec2Model ----------------------------
(***************************************************************************)
(* A model of cracken's entropy estimator (src/src/password_entropy.rs),   *)
(* wordlist loader (src/src/wordlists.rs) and generate command             *)
(* (src/src/runner.rs).                                                    *)
(*                                                                         *)
(* Four sequential programs are modelled, each with its own variables and  *)
(* its own specification; a specification leaves the other programs'       *)
(* variables at their idle values.                                         *)
(*                                                                         *)
(*   Spec         compute_password_entropy: load_vocab, astar, the split   *)
(*   SpecMask     password_mask_cost                                       *)
(*   SpecWordlist Wordlist::from_file                                      *)
(*   SpecRunner   run_wordlist_generator                                   *)
(*                                                                         *)
(* Bytes are the integers 0..255, byte strings are sequences of bytes.     *)
(* Positions in a byte string are 0-based as in the source; slice p[n..i]  *)
(* is Slice(p, n, i).                                                      *)
(***************************************************************************)
EXTENDS Integers, Sequences, FiniteSets, TLC

(***************************************************************************)
(* Bounds of the model.                                                    *)
(***************************************************************************)
\* most lines of a smartlist file
MaxLines == 3
\* longest password of the hybrid solver, in bytes
MaxPwdLen == 3
\* fractional bits kept of a log2 (the source computes in f64)
FracBits == 8
\* longest password of the charset mask cost, in characters
MaxMaskChars == 2
\* most lines of a wordlist file
MaxWordLines == 3
\* most masks of a masks file
MaxMasks == 3

(***************************************************************************)
(* Program constants.                                                      *)
(***************************************************************************)
\* b'\n', the delimiter of read_until and split
NL == 10

Bytes == 0..255

\* the lines a modelled smartlist file is made of: "", "a", "aa", U+00E9
LineWords == {<<>>, <<97>>, <<97, 97>>, <<195, 169>>}
\* bytes a modelled password is made of: 'a' and the two bytes of U+00E9
PwdBytes == {97, 195, 169}

(***************************************************************************)
(* Helpers on sequences.                                                   *)
(***************************************************************************)
SeqsUpTo(S, n) == UNION {[1..k -> S] : k \in 0..n}

\* p[n..i] of the source: bytes at 0-based positions n .. i-1
Slice(p, n, i) == SubSeq(p, n + 1, i)

RECURSIVE Concat(_)
Concat(ss) == IF ss = <<>> THEN <<>> ELSE Head(ss) \o Concat(Tail(ss))

RECURSIVE Pow2(_)
Pow2(k) == IF k = 0 THEN 1 ELSE 2 * Pow2(k - 1)

(***************************************************************************)
(* f64::log2 in fixed point: Log2Fx(n) = floor(log2(n) * 2^FracBits) up to *)
(* truncation in the working precision.  Sums of costs are then integer    *)
(* sums; they are taken in the order the source takes them.                *)
(***************************************************************************)
RECURSIVE FloorLog2(_)
FloorLog2(n) == IF n < 2 THEN 0 ELSE 1 + FloorLog2(n \div 2)

FxOne == Pow2(FracBits + 4)

RECURSIVE FracOf(_, _)
FracOf(x, k) ==
    IF k = 0 THEN 0
    ELSE LET sq == (x * x) \div FxOne
         IN  IF sq >= 2 * FxOne
             THEN Pow2(k - 1) + FracOf(sq \div 2, k - 1)
             ELSE FracOf(sq, k - 1)

Log2Fx(n) ==
    FloorLog2(n) * Pow2(FracBits)
      + FracOf((n * FxOne) \div Pow2(FloorLog2(n)), FracBits)

(***************************************************************************)
(* UTF-8.  A password is a &str, hence valid UTF-8.  Only bytes below 0xE0 *)
(* occur in the model, so one- and two-byte sequences are all there is.    *)
(***************************************************************************)
IsContinuation(b) == b \in 128..191
IsLead2(b) == b \in 194..223

RECURSIVE ValidUtf8(_)
ValidUtf8(b) ==
    IF b = <<>> THEN TRUE
    ELSE IF b[1] < 128 THEN ValidUtf8(Tail(b))
    ELSE /\ IsLead2(b[1])
         /\ Len(b) >= 2
         /\ IsContinuation(b[2])
         /\ ValidUtf8(SubSeq(b, 3, Len(b)))

\* U+FFFD REPLACEMENT CHARACTER, in UTF-8
Replacement == <<239, 191, 189>>

\* String::from_utf8_lossy(b).to_string(), as the bytes of the String
RECURSIVE FromUtf8Lossy(_)
FromUtf8Lossy(b) ==
    IF b = <<>> THEN <<>>
    ELSE IF b[1] < 128 THEN <<b[1]>> \o FromUtf8Lossy(Tail(b))
    ELSE IF IsLead2(b[1]) /\ Len(b) >= 2 /\ IsContinuation(b[2])
         THEN <<b[1], b[2]>> \o FromUtf8Lossy(SubSeq(b, 3, Len(b)))
         ELSE Replacement \o FromUtf8Lossy(Tail(b))

VARIABLES
    \* ---- compute_password_entropy
    pc,          \* where the call is: open, load, fill, search, split, done, err
    file,        \* the bytes of the smartlist file
    fileOk,      \* whether File::open succeeds
    pwd,         \* raw_pwd, the password's bytes
    fpos,        \* bytes of the file consumed by the reader
    rank,        \* load_vocab's rank counter
    word2rank,   \* the rank map, a function from keys to ranks
    inserted,    \* history: the keys inserted by the load loop, in order
    loaded,      \* history: word2rank as it was when the load loop ended
    to_see,      \* astar's heap, a set of [estimated_cost, cost, index]
    parents,     \* astar's index map, a sequence of [node, parent, cost]
    turns,       \* history: the turns astar's loop has taken
    best_path,   \* the path astar returned
    entropy,     \* the cost astar returned
    best_split,  \* the segments returned
    err,         \* the error returned, or NoErr
    \* ---- password_mask_cost
    mpc,         \* where the call is: idle, sum, done
    mpwd,        \* the password's bytes
    mpos,        \* bytes the iterator has yielded
    mcost,       \* the sum so far
    \* ---- Wordlist::from_file
    wpc,         \* where the call is: idle, open, read, sort, done, err
    wfile,       \* the bytes of the wordlist file
    wfileOk,     \* whether File::open succeeds
    wpos,        \* bytes of the file consumed by the second reader
    words,       \* the words vector
    \* ---- run_wordlist_generator
    rpc,         \* where the call is: idle, args, loop, gen, done
    masks,       \* the masks given: the mask argument, or the lines of the masks file
    masksFileOk, \* whether the masks file can be read
    outOk,       \* whether the output file can be created
    stats,       \* whether --stats is given
    midx,        \* masks the loop has taken
    out,         \* the bytes written to the output sink
    printed,     \* the numbers printed on stdout
    sinkErr,     \* the kind of the error the sink reported, or NoErr
    ret          \* what the call returned: Running, Ok, Err

varsE == <<pc, file, fileOk, pwd, fpos, rank, word2rank, inserted, loaded,
           to_see, parents, turns, best_path, entropy, best_split, err>>

varsM == <<mpc, mpwd, mpos, mcost>>
varsW == <<wpc, wfile, wfileOk, wpos, words>>
varsR == <<rpc, masks, masksFileOk, outOk, stats, midx, out, printed, sinkErr, ret>>

vars == <<varsE, varsM, varsW, varsR>>

NoErr == "none"
IoErr == "io"
BadChars == "bad characters in password"

Passwords == {p \in SeqsUpTo(PwdBytes, MaxPwdLen) : ValidUtf8(p)}

\* the file of the lines ls, each followed by \n, the last one only if `terminated`
FileOf(ls, terminated) ==
    LET all == Concat([j \in 1..Len(ls) |-> Append(ls[j], NL)])
    IN  IF terminated \/ ls = <<>> THEN all ELSE SubSeq(all, 1, Len(all) - 1)

Files == {FileOf(ls, t) : ls \in SeqsUpTo(LineWords, MaxLines), t \in BOOLEAN}

(***************************************************************************)
(* load_vocab                                                              *)
(***************************************************************************)
\* the index of the last byte read_until(b'\n') consumes, reading from pos
LineEnd(f, pos) ==
    IF \E i \in pos..Len(f) : f[i] = NL
    THEN CHOOSE i \in pos..Len(f) :
            f[i] = NL /\ \A j \in pos..(i - 1) : f[j] # NL
    ELSE Len(f)

\* the bytes read_until(b'\n', buffer) appends to the empty buffer
ReadUntil(f, pos) == SubSeq(f, pos, LineEnd(f, pos))

\* buffer.pop(); the rest of the buffer
PopLast(buffer) == SubSeq(buffer, 1, Len(buffer) - 1)

\* HashMap::insert
MapInsert(m, k, v) ==
    [x \in (DOMAIN m) \cup {k} |-> IF x = k THEN v ELSE m[x]]

\* word2rank.len() + 1
MissingRank(m) == Cardinality(DOMAIN m) + 1

\* the fallback loop: entry(vec![ch]).or_insert(missing_rank) for every byte
FallbackOverwrite(m) ==
    [k \in (DOMAIN m) \cup {<<b>> : b \in Bytes} |->
        IF Len(k) = 1 THEN MissingRank(m) ELSE m[k]]
FallbackNone(m) == m
FallbackFill(m) ==
    [x \in (DOMAIN m) \cup {<<ch>> : ch \in Bytes} |->
        IF x \in DOMAIN m THEN m[x] ELSE MissingRank(m)]

EmptyMap == [x \in {} |-> 0]

(***************************************************************************)
(* The search: pathfinding::astar with the closures of the source.         *)
(***************************************************************************)
\* the successors closure: i from N down to n, kept when p[n..i] is a key
Successors(n, p, m) ==
    LET N == Len(p)
        cand == [k \in 1..(N - n + 1) |-> N - k + 1]
        IsKey(i) == Slice(p, n, i) \in DOMAIN m
        kept == SelectSeq(cand, IsKey)
    IN  [k \in 1..Len(kept) |->
            [node |-> kept[k], cost |-> Log2Fx(m[Slice(p, n, kept[k])])]]

\* the heuristic closure
Heuristic(n) == 0

\* the success closure
Success(n, p) == n = Len(p)

\* the entries BinaryHeap::pop may return: the greatest in the order of
\* SmallestCostHolder (least estimated_cost, then greatest cost)
HeapTopAny(h) == h
HeapTop(h) ==
    {e \in h : \A o \in h :
        \/ e.estimated_cost < o.estimated_cost
        \/ e.estimated_cost = o.estimated_cost /\ e.cost >= o.cost}

IndexOf(ps, node) ==
    IF \E i \in 1..Len(ps) : ps[i].node = node
    THEN CHOOSE i \in 1..Len(ps) : ps[i].node = node
    ELSE 0

\* the loop over the successors of the node at `index`, reached at `cost`
RECURSIVE RelaxOnEqual(_, _, _, _, _)
RelaxOnEqual(succs, ps, heap, index, cost) ==
    IF succs = <<>> THEN [parents |-> ps, to_see |-> heap]
    ELSE LET s == Head(succs)
             new_cost == cost + s.cost
             at == IndexOf(ps, s.node)
         IN  IF at = 0
             THEN RelaxOnEqual(Tail(succs),
                        Append(ps, [node |-> s.node, parent |-> index,
                                    cost |-> new_cost]),
                        heap \cup {[estimated_cost |-> new_cost + Heuristic(s.node),
                                    cost |-> new_cost,
                                    index |-> Len(ps) + 1]},
                        index, cost)
             ELSE IF ps[at].cost >= new_cost
             THEN RelaxOnEqual(Tail(succs),
                        [ps EXCEPT ![at] = [node |-> s.node, parent |-> index,
                                            cost |-> new_cost]],
                        heap \cup {[estimated_cost |-> new_cost + Heuristic(s.node),
                                    cost |-> new_cost,
                                    index |-> at]},
                        index, cost)
             ELSE RelaxOnEqual(Tail(succs), ps, heap, index, cost)
RECURSIVE Relax(_, _, _, _, _)
Relax(succs, ps, heap, index, cost) ==
    IF succs = <<>> THEN [parents |-> ps, to_see |-> heap]
    ELSE LET s == Head(succs)
             new_cost == cost + s.cost
             at == IndexOf(ps, s.node)
         IN  IF at = 0
             THEN Relax(Tail(succs),
                        Append(ps, [node |-> s.node, parent |-> index,
                                    cost |-> new_cost]),
                        heap \cup {[estimated_cost |-> new_cost + Heuristic(s.node),
                                    cost |-> new_cost,
                                    index |-> Len(ps) + 1]},
                        index, cost)
             ELSE IF ps[at].cost > new_cost
             THEN Relax(Tail(succs),
                        [ps EXCEPT ![at] = [node |-> s.node, parent |-> index,
                                            cost |-> new_cost]],
                        heap \cup {[estimated_cost |-> new_cost + Heuristic(s.node),
                                    cost |-> new_cost,
                                    index |-> at]},
                        index, cost)
             ELSE Relax(Tail(succs), ps, heap, index, cost)

\* reverse_path: the nodes from the start to the node at `index`
RECURSIVE ReversePath(_, _)
ReversePath(ps, index) ==
    IF index = 0 THEN <<>>
    ELSE Append(ReversePath(ps, ps[index].parent), ps[index].node)

\* the segments pushed by the loop over best_path.skip(1)
BestSplit(path, p) ==
    [j \in 1..(Len(path) - 1) |-> FromUtf8Lossy(Slice(p, path[j], path[j + 1]))]

(***************************************************************************)
(* compute_password_entropy, step by step.                                 *)
(***************************************************************************)
\* the programs a specification does not run
IdleE ==
    /\ pc = "idle"
    /\ fileOk = FALSE
    /\ file = <<>>
    /\ pwd = <<>>
    /\ fpos = 0
    /\ rank = 1
    /\ word2rank = EmptyMap
    /\ inserted = <<>>
    /\ loaded = EmptyMap
    /\ to_see = {}
    /\ parents = <<>>
    /\ turns = 0
    /\ best_path = <<>>
    /\ entropy = 0
    /\ best_split = <<>>
    /\ err = NoErr

IdleM == mpc = "idle" /\ mpwd = <<>> /\ mpos = 0 /\ mcost = 0

IdleW == wpc = "idle" /\ wfile = <<>> /\ wfileOk = FALSE /\ wpos = 0 /\ words = <<>>

IdleR ==
    /\ rpc = "idle"
    /\ masks = <<>>
    /\ masksFileOk = FALSE
    /\ outOk = FALSE
    /\ stats = FALSE
    /\ midx = 0
    /\ out = <<>>
    /\ printed = <<>>
    /\ sinkErr = NoErr
    /\ ret = "Running"

Init ==
    /\ IdleM /\ IdleW /\ IdleR
    /\ pc = "open"
    /\ fileOk \in BOOLEAN
    /\ file \in (IF fileOk THEN Files ELSE {<<>>})
    /\ pwd \in Passwords
    /\ fpos = 0
    /\ rank = 1
    /\ word2rank = EmptyMap
    /\ inserted = <<>>
    /\ loaded = EmptyMap
    /\ to_see = {}
    /\ parents = <<>>
    /\ turns = 0
    /\ best_path = <<>>
    /\ entropy = 0
    /\ best_split = <<>>
    /\ err = NoErr

\* File::open(fname)?
OpenFile ==
    /\ pc = "open"
    /\ IF fileOk
       THEN pc' = "load" /\ err' = err
       ELSE pc' = "err" /\ err' = IoErr
    /\ UNCHANGED <<file, fileOk, pwd, fpos, rank, word2rank, inserted, loaded,
                   to_see, parents, turns, best_path, entropy, best_split>>
    /\ UNCHANGED <<varsM, varsW, varsR>>

\* one turn of the load loop
LoadLine ==
    /\ pc = "load"
    /\ LET buffer == ReadUntil(file, fpos + 1)
       IN  IF Len(buffer) = 0
           THEN /\ pc' = "fill"
                /\ loaded' = word2rank
                /\ UNCHANGED <<fpos, rank, word2rank, inserted>>
           ELSE LET word == PopLast(buffer)
                IN  /\ word2rank' = MapInsert(word2rank, word, rank)
                    /\ rank' = rank + 1
                    /\ inserted' = Append(inserted, word)
                    /\ fpos' = fpos + Len(buffer)
                    /\ UNCHANGED <<pc, loaded>>
    /\ UNCHANGED <<file, fileOk, pwd, to_see, parents, turns, best_path,
                   entropy, best_split, err>>
    /\ UNCHANGED <<varsM, varsW, varsR>>

\* the fallback fill, and astar's set-up
Fill ==
    /\ pc = "fill"
    /\ word2rank' = FallbackFill(word2rank)
    /\ to_see' = {[estimated_cost |-> 0, cost |-> 0, index |-> 1]}
    /\ parents' = <<[node |-> 0, parent |-> 0, cost |-> 0]>>
    /\ pc' = "search"
    /\ UNCHANGED <<file, fileOk, pwd, fpos, rank, inserted, loaded, turns,
                   best_path, entropy, best_split, err>>
    /\ UNCHANGED <<varsM, varsW, varsR>>

\* one turn of astar's loop; the heap running empty is its None
AstarLoop ==
    /\ pc = "search"
    /\ IF to_see = {}
       THEN /\ pc' = "err"
            /\ err' = BadChars
            /\ UNCHANGED <<to_see, parents, best_path, entropy>>
       ELSE \E e \in HeapTop(to_see) :
              LET node == parents[e.index].node
                  c == parents[e.index].cost
              IN  IF Success(node, pwd)
                  THEN /\ best_path' = ReversePath(parents, e.index)
                       /\ entropy' = e.cost
                       /\ to_see' = to_see \ {e}
                       /\ pc' = "split"
                       /\ UNCHANGED <<parents, err>>
                  ELSE IF e.cost > c
                  THEN /\ to_see' = to_see \ {e}
                       /\ UNCHANGED <<pc, parents, best_path, entropy, err>>
                  ELSE LET st == Relax(Successors(node, pwd, word2rank),
                                       parents, to_see \ {e}, e.index, e.cost)
                       IN  /\ parents' = st.parents
                           /\ to_see' = st.to_see
                           /\ UNCHANGED <<pc, best_path, entropy, err>>
    /\ turns' = turns + 1
    /\ UNCHANGED <<file, fileOk, pwd, fpos, rank, word2rank, inserted, loaded,
                   best_split>>
    /\ UNCHANGED <<varsM, varsW, varsR>>

\* the segments are cut out of the password
Split ==
    /\ pc = "split"
    /\ best_split' = BestSplit(best_path, pwd)
    /\ pc' = "done"
    /\ UNCHANGED <<file, fileOk, pwd, fpos, rank, word2rank, inserted, loaded,
                   to_see, parents, turns, best_path, entropy, err>>
    /\ UNCHANGED <<varsM, varsW, varsR>>

Next == OpenFile \/ LoadLine \/ Fill \/ AstarLoop \/ Split

Spec == Init /\ [][Next]_vars


(***************************************************************************)
(* password_mask_cost                                                      *)
(***************************************************************************)
\* the characters a modelled password is made of: the bytes at the edges of
\* the classes, and U+00E9
MaskChars ==
    {<<0>>, <<31>>, <<32>>, <<33>>, <<47>>, <<48>>, <<57>>, <<58>>, <<64>>,
     <<65>>, <<90>>, <<91>>, <<96>>, <<97>>, <<122>>, <<123>>, <<126>>,
     <<127>>, <<195, 169>>}

MaskPasswords == {Concat(cs) : cs \in SeqsUpTo(MaskChars, MaxMaskChars)}

\* b"!\"#$%&'()*+,-./:;<=>?@[\\]^_`{|}~"
SYMBOLS_WITH_SPACE ==
    <<32, 33, 34, 35, 36, 37, 38, 39, 40, 41, 42, 43, 44, 45, 46, 47,
      58, 59, 60, 61, 62, 63, 64, 91, 92, 93, 94, 95, 96, 123, 124, 125, 126>>
SYMBOLS_SPACE ==
    <<33, 34, 35, 36, 37, 38, 39, 40, 41, 42, 43, 44, 45, 46, 47,
      58, 59, 60, 61, 62, 63, 64, 91, 92, 93, 94, 95, 96, 123, 124, 125, 126>>

\* u8::is_ascii_digit
IsAsciiDigit(ch) == ch \in 48..57

\* u8::is_ascii_alphabetic
IsAsciiAlphabetic(ch) == ch \in (65..90) \cup (97..122)

\* SYMBOLS_SPACE.contains(&ch)
Contains(tbl, ch) == \E i \in 1..Len(tbl) : tbl[i] = ch

\* the closure mapped over the bytes
ByteCost(ch) ==
    IF IsAsciiDigit(ch) THEN Log2Fx(10)
    ELSE IF IsAsciiAlphabetic(ch) THEN Log2Fx(26)
    ELSE IF Contains(SYMBOLS_SPACE, ch) THEN Log2Fx(Len(SYMBOLS_SPACE))
    ELSE Log2Fx(256)

InitMask ==
    /\ IdleE /\ IdleW /\ IdleR
    /\ mpc = "sum"
    /\ mpwd \in MaskPasswords
    /\ mpos = 0
    /\ mcost = 0

\* sum() takes the next byte's cost
MaskAdd ==
    /\ mpc = "sum"
    /\ mpos < Len(mpwd)
    /\ mcost' = mcost + ByteCost(mpwd[mpos + 1])
    /\ mpos' = mpos + 1
    /\ UNCHANGED <<mpc, mpwd>>
    /\ UNCHANGED <<varsE, varsW, varsR>>

\* the bytes are exhausted: the sum is returned
MaskReturn ==
    /\ mpc = "sum"
    /\ mpos = Len(mpwd)
    /\ mpc' = "done"
    /\ UNCHANGED <<mpwd, mpos, mcost>>
    /\ UNCHANGED <<varsE, varsW, varsR>>

NextMask == MaskAdd \/ MaskReturn

SpecMask == InitMask /\ [][NextMask]_vars

(***************************************************************************)
(* Wordlist::from_file                                                     *)
(***************************************************************************)
\* the lines a modelled wordlist file is made of: "", "a", "b", "ab"
WordLines == {<<>>, <<97>>, <<98>>, <<97, 98>>}

WordFiles == {FileOf(ls, t) : ls \in SeqsUpTo(WordLines, MaxWordLines), t \in BOOLEAN}

\* what the iterator of split(b'\n') yields, reading from pos: the bytes
\* read_until consumes, without the delimiter they end with
SplitItem(f, pos) ==
    LET buf == ReadUntil(f, pos)
    IN  IF buf # <<>> /\ buf[Len(buf)] = NL THEN PopLast(buf) ELSE buf

\* the closure mapped over the items: an empty word is dropped, a last \n
\* popped, the word pushed
PushWord(ws, item) ==
    IF item # <<>>
    THEN Append(ws, IF item[Len(item)] = NL THEN PopLast(item) ELSE item)
    ELSE ws

Bijections(n) == {f \in [1..n -> 1..n] : \A i, j \in 1..n : f[i] = f[j] => i = j}

\* what sort_unstable_by(|a, b| a.len().cmp(&b.len())) may leave: the words
\* in ascending length, equal lengths in any order
SortUnstableByLen(ws) ==
    {[i \in 1..Len(ws) |-> ws[f[i]]] : f \in
        {g \in Bijections(Len(ws)) : \A i, j \in 1..Len(ws) :
            i < j => Len(ws[g[i]]) <= Len(ws[g[j]])}}

InitWordlist ==
    /\ IdleE /\ IdleM /\ IdleR
    /\ wpc = "open"
    /\ wfileOk \in BOOLEAN
    /\ wfile \in (IF wfileOk THEN WordFiles ELSE {<<>>})
    /\ wpos = 0
    /\ words = <<>>

\* File::open(fname)?, for the count of the lines and for the read
WordlistOpen ==
    /\ wpc = "open"
    /\ wpc' = IF wfileOk THEN "read" ELSE "err"
    /\ UNCHANGED <<wfile, wfileOk, wpos, words>>
    /\ UNCHANGED <<varsE, varsM, varsR>>

\* the next item of split(b'\n') goes through the closure
WordlistRead ==
    /\ wpc = "read"
    /\ wpos < Len(wfile)
    /\ words' = PushWord(words, SplitItem(wfile, wpos + 1))
    /\ wpos' = wpos + Len(ReadUntil(wfile, wpos + 1))
    /\ UNCHANGED <<wpc, wfile, wfileOk>>
    /\ UNCHANGED <<varsE, varsM, varsR>>

\* the file is exhausted: the words are sorted and returned
WordlistSort ==
    /\ wpc = "read"
    /\ wpos >= Len(wfile)
    /\ words' \in SortUnstableByLen(words)
    /\ wpc' = "done"
    /\ UNCHANGED <<wfile, wfileOk, wpos>>
    /\ UNCHANGED <<varsE, varsM, varsR>>

NextWordlist == WordlistOpen \/ WordlistRead \/ WordlistSort

SpecWordlist == InitWordlist /\ [][NextWordlist]_vars

(***************************************************************************)
(* run_wordlist_generator.  get_word_generator and the generator are       *)
(* called, not modelled: a mask is given as what get_word_generator makes  *)
(* of it (a generator or an error) and the words its generator emits.      *)
(***************************************************************************)
\* the masks of the model: one no generator can be made of, and three with
\* the words "" (none), "a", and "0", "1"
MaskInputs ==
    {[valid |-> FALSE, words |-> <<>>],
     [valid |-> TRUE, words |-> <<>>],
     [valid |-> TRUE, words |-> << <<97>> >>],
     [valid |-> TRUE, words |-> << <<48>>, <<49>> >>]}

\* the kinds of error a sink reports
ErrKinds == {"BrokenPipe", "Other"}

\* the bytes gen writes for the words ws: each word and a \n
OutOf(ws) == Concat([j \in 1..Len(ws) |-> Append(ws[j], NL)])

\* the k-th mask `for mask in masks` takes
MaskAtReversed(ms, k) == ms[Len(ms) - k + 1]
MaskAt(ms, k) == ms[k]

\* word_generator.combinations()
Combinations(mask) == Len(mask.words)

InitRunner ==
    /\ IdleE /\ IdleM /\ IdleW
    /\ rpc = "args"
    /\ masksFileOk \in BOOLEAN
    /\ masks \in (IF masksFileOk THEN SeqsUpTo(MaskInputs, MaxMasks) ELSE {<<>>})
    /\ outOk \in BOOLEAN
    /\ stats \in BOOLEAN
    /\ midx = 0
    /\ out = <<>>
    /\ printed = <<>>
    /\ sinkErr = NoErr
    /\ ret = "Running"

\* the masks are read, the output sink is made
RunArgs ==
    /\ rpc = "args"
    /\ IF masksFileOk /\ outOk
       THEN rpc' = "loop" /\ ret' = ret
       ELSE rpc' = "done" /\ ret' = "Err"
    /\ UNCHANGED <<masks, masksFileOk, outOk, stats, midx, out, printed, sinkErr>>
    /\ UNCHANGED <<varsE, varsM, varsW>>

\* the loop takes the next mask, or ends
RunLoop ==
    /\ rpc = "loop"
    /\ IF midx = Len(masks)
       THEN /\ rpc' = "done"
            /\ ret' = "Ok"
            /\ UNCHANGED printed
       ELSE LET mask == MaskAt(masks, midx + 1)
            IN  IF ~mask.valid
                THEN /\ rpc' = "done"
                     /\ ret' = "Err"
                     /\ UNCHANGED printed
                ELSE IF stats
                THEN /\ printed' = Append(printed, Combinations(mask))
                     /\ rpc' = "done"
                     /\ ret' = "Ok"
                ELSE /\ rpc' = "gen"
                     /\ UNCHANGED <<ret, printed>>
    /\ UNCHANGED <<masks, masksFileOk, outOk, stats, midx, out, sinkErr>>
    /\ UNCHANGED <<varsE, varsM, varsW>>

\* what the run returns when gen reports an error of this kind: a broken
\* pipe is ignored, any other kind bails
GenErrResultAllOk(kind) == "Ok"
GenErrResult(kind) == IF kind = "BrokenPipe" THEN "Ok" ELSE "Err"

\* word_generator.gen(&mut out): every word is written, or the sink reports
\* an error after k words
RunGen ==
    /\ rpc = "gen"
    /\ LET ws == MaskAt(masks, midx + 1).words
       IN  \/ /\ out' = out \o OutOf(ws)
              /\ midx' = midx + 1
              /\ rpc' = "loop"
              /\ UNCHANGED <<sinkErr, ret>>
           \/ \E k \in 0..Len(ws), kind \in ErrKinds :
                /\ out' = out \o OutOf(SubSeq(ws, 1, k))
                /\ sinkErr' = kind
                /\ ret' = GenErrResult(kind)
                /\ rpc' = "done"
                /\ UNCHANGED midx
    /\ UNCHANGED <<masks, masksFileOk, outOk, stats, printed>>
    /\ UNCHANGED <<varsE, varsM, varsW>>

NextRunner == RunArgs \/ RunLoop \/ RunGen

SpecRunner == InitRunner /\ [][NextRunner]_vars

(***************************************************************************)
(* What the claims speak of.                                               *)
(***************************************************************************)
Range(s) == {s[i] : i \in 1..Len(s)}

RECURSIVE SumLeft(_)
SumLeft(s) == IF s = <<>> THEN 0 ELSE SumLeft(SubSeq(s, 1, Len(s) - 1)) + s[Len(s)]

\* the cut points S of 1..N-1, in ascending order, between 0 and N
RECURSIVE Ascending(_)
Ascending(S) ==
    IF S = {} THEN <<>>
    ELSE LET lo == CHOOSE x \in S : \A y \in S : x <= y
         IN  <<lo>> \o Ascending(S \ {lo})

\* every partition of p into consecutive non-empty pieces, as its positions
Partitions(p) ==
    IF Len(p) = 0 THEN {<<0>>}
    ELSE {<<0>> \o Ascending(S) \o <<Len(p)>> : S \in SUBSET (1..(Len(p) - 1))}

Pieces(path, p) == [j \in 1..(Len(path) - 1) |-> Slice(p, path[j], path[j + 1])]

\* the partitions of p whose pieces are all keys of m
Covers(p, m) == {q \in Partitions(p) : \A s \in Range(Pieces(q, p)) : s \in DOMAIN m}

CoverCost(q, p, m) ==
    SumLeft([j \in 1..(Len(q) - 1) |-> Log2Fx(m[Pieces(q, p)[j]])])

CoverCosts(p, m) == {CoverCost(q, p, m) : q \in Covers(p, m)}

\* the lines of a file: the bytes between the \n's, a last line without \n too
RECURSIVE LinesOf(_)
LinesOf(f) ==
    IF f = <<>> THEN <<>>
    ELSE IF \E i \in 1..Len(f) : f[i] = NL
    THEN LET i == CHOOSE i \in 1..Len(f) : f[i] = NL /\ \A j \in 1..(i - 1) : f[j] # NL
         IN  <<SubSeq(f, 1, i - 1)>> \o LinesOf(SubSeq(f, i + 1, Len(f)))
    ELSE <<f>>

FirstIndex(s, x) == CHOOSE i \in 1..Len(s) : s[i] = x /\ \A j \in 1..(i - 1) : s[j] # x

Searched == pc \in {"search", "split", "done"}

\* the costs at which position n can be reached
PrefixCosts(n) == CoverCosts(Slice(pwd, 0, n), word2rank)

\* how many more times astar can push position n: once when it is first
\* seen, once for every cost below the one it is held at
Potential(n) ==
    LET at == IndexOf(parents, n)
    IN  IF at = 0 THEN Cardinality(PrefixCosts(n)) + 1
        ELSE Cardinality({c \in PrefixCosts(n) : c < parents[at].cost})

\* what every turn of astar's loop makes smaller: a turn pops one entry, and
\* pushes an entry only for a position it lowers the potential of
SearchMeasure ==
    Cardinality(to_see)
      + 2 * SumLeft([n \in 1..(Len(pwd) + 1) |-> Potential(n - 1)])

\* SearchMeasure when the search starts
SearchBound ==
    1 + 2 * SumLeft([n \in 1..Len(pwd) |-> Cardinality(PrefixCosts(n)) + 1])

(***************************************************************************)
(* C1. Totality of the hybrid solver: once the smartlist file is loaded,   *)
(* every single byte is a key of the rank map, the call never returns the  *)
(* "bad characters in password" error, and it returns Ok, for every        *)
(* password: an error is the file's, astar's loop always has an entry to   *)
(* pop, and it takes no more than SearchBound turns.                       *)
(***************************************************************************)
C1_Totality ==
    /\ err # BadChars
    /\ Searched => \A b \in Bytes : <<b>> \in DOMAIN word2rank
    /\ pc = "err" => ~fileOk /\ err = IoErr
    /\ pc = "done" => fileOk /\ err = NoErr
    /\ pc = "search" => /\ HeapTop(to_see) # {}
                        /\ turns + SearchMeasure <= SearchBound

\* a password is answered whose bytes are not all lines of the file
C1_Witness ==
    /\ pc = "done"
    /\ \E j \in 1..Len(pwd) : <<pwd[j]>> \notin DOMAIN loaded

(***************************************************************************)
(* C2. Minimality of the hybrid cost: the cost returned is the cost of a   *)
(* partition of the password into keys of the rank map, and no partition   *)
(* into keys has a smaller cost.                                           *)
(***************************************************************************)
C2_Minimality ==
    pc \in {"split", "done"} =>
        /\ entropy \in CoverCosts(pwd, word2rank)
        /\ \A c \in CoverCosts(pwd, word2rank) : entropy <= c

\* a password with covers of different costs, answered with a longer key
C2_Witness ==
    /\ pc = "done"
    /\ Cardinality(CoverCosts(pwd, word2rank)) >= 2
    /\ \E j \in 1..(Len(best_path) - 1) : best_path[j + 1] - best_path[j] >= 2
    /\ \E c \in CoverCosts(pwd, word2rank) : entropy < c

(***************************************************************************)
(* C3. Segmentation concatenation: the segments returned, concatenated in  *)
(* order, are the password byte for byte.                                  *)
(***************************************************************************)
C3_ConcatIsPassword ==
    pc = "done" => Concat(best_split) = pwd

(***************************************************************************)
(* C4. Cost consistency: every segment returned is a key of the rank map   *)
(* and the cost returned is the left-to-right sum of log2(rank) over the   *)
(* segments returned.                                                      *)
(***************************************************************************)
C4_CostOfReturnedSegments ==
    pc = "done" =>
        /\ \A j \in 1..Len(best_split) : best_split[j] \in DOMAIN word2rank
        /\ entropy = SumLeft([j \in 1..Len(best_split) |->
                                 Log2Fx(word2rank[best_split[j]])])

(***************************************************************************)
(* C5. Fallback rank: after a file of R lines is read, every byte that was *)
(* not itself a loaded key has rank R + 1.                                 *)
(***************************************************************************)
C5_FallbackRankIsLinesPlusOne ==
    Searched =>
        \A b \in Bytes :
            <<b>> \notin Range(inserted) => word2rank[<<b>>] = Len(inserted) + 1

(***************************************************************************)
(* C6. First occurrence wins: the rank stored for a key that occurs more   *)
(* than once is the rank of its first occurrence.                          *)
(***************************************************************************)
C6_FirstOccurrenceWins ==
    pc \in {"fill", "search", "split", "done"} =>
        \A i \in 1..Len(inserted) :
            loaded[inserted[i]] = FirstIndex(inserted, inserted[i])

(***************************************************************************)
(* C7. Smartlist line framing: the keys inserted are the lines of the      *)
(* file, each with only its terminating \n removed, the last line included *)
(* when it has no \n.                                                      *)
(***************************************************************************)
C7_KeysAreLines ==
    pc \in {"fill", "search", "split", "done"} => inserted = LinesOf(file)

\* the 32 punctuation bytes of ASCII
Punctuation == (33..47) \cup (58..64) \cup (91..96) \cup (123..126)

\* log2 of the size of the class of ch, the symbol class having `space` bytes
\* more than the punctuation
ClassCost(ch, withSpace) ==
    IF ch \in 48..57 THEN Log2Fx(10)
    ELSE IF ch \in (65..90) \cup (97..122) THEN Log2Fx(26)
    ELSE IF ch \in Punctuation \/ (withSpace /\ ch = 32)
         THEN Log2Fx(IF withSpace THEN 33 ELSE 32)
    ELSE Log2Fx(256)

(***************************************************************************)
(* C8, as claimed. Charset mask classifier: the cost is the sum over the   *)
(* bytes of log2 of the class size, the classes being digit (10), letter   *)
(* (26), symbol-space (33: the 32 punctuation bytes and the space) and     *)
(* other (256).                                                            *)
(***************************************************************************)
C8_SymbolClassOf33 ==
    mpc = "done" =>
        mcost = SumLeft([j \in 1..Len(mpwd) |-> ClassCost(mpwd[j], TRUE)])

(***************************************************************************)
(* C8, amended. Charset mask classifier: the cost is the sum over the      *)
(* bytes of log2 of the class size, the classes being digit (10), letter   *)
(* (26), symbol (32: the punctuation bytes, without the space) and other   *)
(* (256, the space included); the sum is taken left to right.              *)
(***************************************************************************)
C8_SymbolClassOf32 ==
    /\ mpc \in {"sum", "done"} =>
          mcost = SumLeft([j \in 1..mpos |-> ClassCost(mpwd[j], FALSE)])
    /\ mpc = "done" => mpos = Len(mpwd)

\* the cost of a password with a space and a punctuation byte is returned
C8_Witness ==
    /\ mpc = "done"
    /\ 32 \in Range(mpwd)
    /\ Range(mpwd) \cap Punctuation # {}

\* the non-empty lines of a file, in the order of the file
NonEmptyLines(f) == LET IsWord(l) == l # <<>> IN SelectSeq(LinesOf(f), IsWord)

\* s with x put in after the last element that is no longer than x
RECURSIVE InsertByLen(_, _)
InsertByLen(s, x) ==
    IF s = <<>> THEN <<x>>
    ELSE IF Len(s[Len(s)]) <= Len(x) THEN Append(s, x)
    ELSE Append(InsertByLen(SubSeq(s, 1, Len(s) - 1), x), s[Len(s)])

\* s sorted by ascending length, equal lengths in the order of s
RECURSIVE StableByLen(_)
StableByLen(s) ==
    IF s = <<>> THEN <<>>
    ELSE InsertByLen(StableByLen(SubSeq(s, 1, Len(s) - 1)), s[Len(s)])

(***************************************************************************)
(* C9. Wordlist order: after Wordlist::from_file the entries are the       *)
(* non-empty lines of the file sorted stably by ascending length: entries  *)
(* of equal length are in the order of the file.                           *)
(***************************************************************************)
C9_StableByLength ==
    wpc = "done" => words = StableByLen(NonEmptyLines(wfile))

\* the output of the first k masks, one after the other
OutOfMasks(k) == Concat([i \in 1..k |-> OutOf(masks[i].words)])

\* the masks before the first one no generator can be made of
ValidPrefix ==
    IF \A i \in 1..Len(masks) : masks[i].valid THEN Len(masks)
    ELSE (CHOOSE i \in 1..Len(masks) :
             ~masks[i].valid /\ \A j \in 1..(i - 1) : masks[j].valid) - 1

\* the run had its masks and its sink, no --stats, and no sink error
PlainRun == masksFileOk /\ outOk /\ ~stats /\ sinkErr = NoErr

(***************************************************************************)
(* C10, as claimed. Mask-file mode ordering: with no --stats and no sink   *)
(* error, the bytes written are out(m1) ++ ... ++ out(mk) for the masks    *)
(* m1..mk of the file: every mask's output is written, once, in file       *)
(* order.                                                                  *)
(***************************************************************************)
C10_EveryMaskWritten ==
    rpc = "done" /\ PlainRun => out = OutOfMasks(Len(masks))

(***************************************************************************)
(* C10, amended. Mask-file mode ordering: with no --stats and no sink      *)
(* error, the bytes written are out(m1) ++ ... ++ out(mj) in file order,   *)
(* where m1..mj are the masks before the first one no generator can be     *)
(* made of (all of them when there is none); the run returns Ok exactly    *)
(* when there is none.  While it runs, what is written is the output of    *)
(* the masks taken so far, in file order.                                  *)
(***************************************************************************)
C10_MasksWrittenInOrder ==
    /\ rpc \in {"loop", "gen"} => out = OutOfMasks(midx) /\ midx <= ValidPrefix
    /\ rpc = "done" /\ PlainRun =>
          /\ out = OutOfMasks(ValidPrefix)
          /\ ret = (IF ValidPrefix = Len(masks) THEN "Ok" ELSE "Err")

\* a run over two masks of different, non-empty output has returned
C10_Witness ==
    /\ rpc = "done" /\ PlainRun /\ ret = "Ok"
    /\ Len(masks) >= 2
    /\ masks[1].words # <<>> /\ masks[2].words # <<>>
    /\ masks[1] # masks[2]

\* the run had its masks and its sink, and --stats
StatsRun == masksFileOk /\ outOk /\ stats

\* the number of words the masks generate, all together
TotalCombinations == SumLeft([i \in 1..Len(masks) |-> Combinations(masks[i])])

\* a generator can be made of every mask
AllValid == \A i \in 1..Len(masks) : masks[i].valid

(***************************************************************************)
(* C11. Stats mode: with --stats, the run prints the number of words the   *)
(* same command would generate without --stats, the count for the whole    *)
(* command (one mask or the several masks of a masks file), writes no      *)
(* word to the output sink, and exits.                                     *)
(***************************************************************************)
C11_StatsPrintsWholeCount ==
    rpc = "done" /\ StatsRun /\ Len(masks) >= 1 /\ AllValid =>
        /\ printed = <<TotalCombinations>>
        /\ out = <<>>
        /\ ret = "Ok"

\* what is written of the mask gen was working on when the sink failed
PartialOuts ==
    {OutOf(SubSeq(masks[midx + 1].words, 1, k)) :
        k \in 0..Len(masks[midx + 1].words)}

(***************************************************************************)
(* C12. Sink errors stop generation: once gen reports a write error on the *)
(* sink while processing a mask, the run has ended, returning Err for      *)
(* every kind of error but a broken pipe, for which it returns Ok; what is *)
(* written is the output of the masks before and a part of that mask's,    *)
(* and no step follows: no later mask is generated, nothing further is     *)
(* written.                                                                *)
(***************************************************************************)
C12_SinkErrorStops ==
    /\ [](sinkErr # NoErr =>
            /\ rpc = "done"
            /\ ret = (IF sinkErr = "BrokenPipe" THEN "Ok" ELSE "Err")
            /\ midx < Len(masks)
            /\ \E part \in PartialOuts : out = OutOfMasks(midx) \o part)
    /\ [][sinkErr = NoErr]_vars

\* the sink broke its pipe in the middle of a mask that a mask with words
\* follows
C12_Witness ==
    /\ rpc = "done" /\ sinkErr = "BrokenPipe" /\ ret = "Ok"
    /\ midx + 1 < Len(masks)
    /\ masks[midx + 2].valid /\ masks[midx + 2].words # <<>>
    /\ Len(masks[midx + 1].words) = 2
    /\ out = OutOfMasks(midx) \o OutOf(SubSeq(masks[midx + 1].words, 1, 1))

(***************************************************************************)
(* C13. Invalid masks are reported: if a generator cannot be made of one   *)
(* of the masks supplied (the mask argument, or any line of the masks      *)
(* file), the run returns an error, not Ok.                                *)
(***************************************************************************)
C13_InvalidMaskIsError ==
    rpc = "done" /\ masksFileOk /\ outOk /\ ~AllValid => ret = "Err"

\* the rank map with the empty key removed, all other ranks unchanged
WithoutEmpty(m) == [k \in (DOMAIN m) \ {<<>>} |-> m[k]]

\* what a turn of astar's loop that expands the entry e makes of the heap
\* and the parents, searching with the rank map m
Expanded(e, m) ==
    Relax(Successors(parents[e.index].node, pwd, m),
          parents, to_see \ {e}, e.index, e.cost)

(***************************************************************************)
(* C14. Empty smartlist entries are inert: with an empty line in the       *)
(* smartlist, of any rank, every edge the search takes strictly advances   *)
(* the position, so no returned segment is empty; the search terminates;   *)
(* and every turn of the search, the cost and the segmentation returned    *)
(* are the same as with the empty key removed from the rank map.           *)
(***************************************************************************)
C14_EmptyKeyInert ==
    /\ Searched =>
          \A k \in 1..Len(parents) :
             IF k = 1 THEN parents[k].node = 0 /\ parents[k].parent = 0
             ELSE /\ parents[k].parent \in 1..Len(parents)
                  /\ parents[parents[k].parent].node < parents[k].node
    /\ pc = "search" =>
          /\ turns + SearchMeasure <= SearchBound
          /\ \A e \in HeapTop(to_see) :
                Expanded(e, word2rank) = Expanded(e, WithoutEmpty(word2rank))
    /\ pc \in {"split", "done"} =>
          /\ \A j \in 1..(Len(best_path) - 1) : best_path[j] < best_path[j + 1]
          /\ best_path \in Covers(pwd, WithoutEmpty(word2rank))
          /\ entropy = CoverCost(best_path, pwd, WithoutEmpty(word2rank))
          /\ \A c \in CoverCosts(pwd, WithoutEmpty(word2rank)) : entropy <= c
    /\ pc = "done" => \A j \in 1..Len(best_split) : best_split[j] # <<>>

\* a password of two bytes or more is answered from a smartlist whose
\* empty line has rank 1
C14_Witness ==
    /\ pc = "done"
    /\ <<>> \in DOMAIN word2rank /\ word2rank[<<>>] = 1
    /\ Len(pwd) >= 2
    /\ Len(best_split) >= 1

(***************************************************************************)
(* C15. Fallback fill frame: the fallback step changes the rank of no key  *)
(* loaded from the file (a single-byte key of the file keeps its file      *)
(* rank) and adds only single-byte keys that were absent: after it the     *)
(* keys are the keys loaded from the file and the 256 single-byte keys.    *)
(***************************************************************************)
C15_FallbackFillFrame ==
    Searched =>
        /\ \A k \in DOMAIN loaded : word2rank[k] = loaded[k]
        /\ DOMAIN word2rank = (DOMAIN loaded) \cup {<<b>> : b \in Bytes}

\* the file had a single-byte key, of a rank that is not the fallback
\* rank, and a longer key
C15_Witness ==
    /\ Searched
    /\ \E b \in Bytes : /\ <<b>> \in DOMAIN loaded
                         /\ loaded[<<b>>] # MissingRank(loaded)
    /\ \E k \in DOMAIN loaded : Len(k) >= 2

=============================================================================
